---- MODULE Spec2Model ----
(***************************************************************************)
(* A model of COMET / hgmd (hypergeometric marker detection).              *)
(*                                                                         *)
(*   SpecSingleton : hgmd.singleton_test (src/hgmd/hgmd.py), the per-gene  *)
(*                   XL-mHG cutoff, its "slide", and the result rows.      *)
(*   SpecDiscrete  : process(), cutoff values and the discrete matrix.     *)
(*   SpecAbbrev    : process(), the heuristic abbreviation and the triple  *)
(*                   enumeration.                                          *)
(*   SpecRank      : process(), the singleton rank fusion.                 *)
(*   SpecTables    : process(), the result tables and their CSV files.     *)
(*   SpecMain      : main(), the loop that starts a worker per cluster,    *)
(*                   and the files each worker writes.                     *)
(*   SpecTpTn      : process(), the true positive and true negative        *)
(*                   rates of singletons and pairs.                        *)
(*   SpecReadData  : read_data(), the cell filter and the downsampling,    *)
(*                   and main()'s filter of the expression rows.           *)
(*   SpecGeneList  : read_data(), the gene list and the gene filter.       *)
(*                                                                         *)
(* Each specification runs one part of the program; the variables of the   *)
(* other parts stay at their idle values.                                  *)
(*                                                                         *)
(* Expression values are small integers; a DataFrame is a sequence of      *)
(* rows; numpy's 0-based positions are kept 0-based in the variables and   *)
(* converted to 1-based sequence positions where a sequence is indexed.    *)
(***************************************************************************)
EXTENDS Integers, Sequences, FiniteSets, TLC

\* ------------------------------------------------------------------ bounds
MaxCells == 3
\* genes (with complements) in the singleton table of process
MaxGenes == 3
\* rows of a combination table, and the largest Trim
MaxRows == 2
\* clusters in the cluster file, and the largest -C
MaxClusters == 4
MaxCores == 2
\* the largest gene pool (columns of marker_exp) of the abbreviation
PoolSize == 500

\* a sample of expression levels, and of the gene columns of cells
ExprValues == {0, 1, 2}
GeneColumns == <<"A", "B">>
\* the labels cells carry; the label designating the cluster of interest may
\* be one that no cell carries
ClusterLabels == {"c1", "c2"}
RequestedLabels == ClusterLabels \cup {"c3"}

None == -1

VARIABLES
    \* ---- hgmd.singleton_test
    st_pc,              \* position in singleton_test
    cells_cluster,      \* cells['cluster'], in input row order
    cluster,            \* the cluster of interest
    xl_valid,           \* whether X and L pass xlmhg's argument validation
    n_genes,            \* len(cells.columns[3:])
    gene,               \* enumerate() index of the gene being tested
    exp,                \* exp: rows [cluster, val] sorted by expression
    v,                  \* v: 0/1 cluster membership, in exp's order
    raw_cutoff_index,   \* the cutoff index xlmhg_test returned
    mHG_cutoff_index,
    mHG_cutoff_value,
    output,             \* output: rows appended so far
    \* ---- __main__.process, the singleton rank fusion (lines 387-413)
    rk_pc,              \* position in process
    sing_output,        \* sing_output: the merged singleton table
    singleton_csv,      \* cluster_<cls>_singleton.csv
    \* ---- __main__.process, the tables and their CSV files
    tb_pc,              \* position in process
    K,                  \* K, as main passes it
    Trim,               \* Trim
    pair,               \* pair: the rows pair_hg returned
    pair_out_initial,   \* pair sorted by HG_pval, with its rank column
    ranked_pair,        \* what the ranker returned
    trips,              \* trips: the rows trips_hg / trips_hg_full returned
    trips_output,       \* trips sorted, with its rank column; 1 if K # 3
    quads_fin,          \* the rows quads_hg returned
    quads_final,        \* quads_fin sorted, with its rank column; 1 if K < 4
    tb_sing_output,     \* sing_output after the rank fusion
    csv,                \* csv[name]: the file cluster_<cls>_<name>.csv
    \* ---- __main__.process, cutoffs and the discrete matrix (lines 231-263)
    dx_pc,              \* position in process
    marker_exp,         \* marker_exp[column]: expression by cell
    mHG_cutoff,         \* xlmhg['mHG_cutoff'][column]: the raw cutoff index
    cutoff_value,       \* cutoff_value[column]
    discrete_exp,       \* discrete_exp[column]: 0/1 by cell
    \* ---- __main__.process, the heuristic abbreviation (lines 245-311)
    ab_pc,              \* position in process
    ab_K,               \* K
    abbrev,             \* abbrev, as argparse leaves args.Abbrev
    stat_order,         \* which sample of mHG statistics the genes have
    xlmhg,              \* xlmhg['gene_1'], in row order
    count,              \* count
    trips_list,         \* trips_list
    trips_genes,        \* the genes triples were enumerated from
    n_trips,            \* number of triples enumerated
    \* ---- __main__.main, the worker loop (lines 600-641), and the files
    \* ---- the workers' process() writes
    mn_pc,              \* position in main
    mn_K,               \* K, as main passes it to every worker
    clusters,           \* clusters: the labels not yet handed out
    cores,              \* cores
    group_num,          \* group_num
    element,            \* element
    new_clusters,       \* new_clusters
    jobs,               \* jobs: the workers started in this group
    p,                  \* p: the worker started last
    worker,             \* worker[cls]: position of the worker in process
    written,            \* the writes made so far: [path, by]
    mutated,            \* in-place mutations made so far: [space, by]
    cluster_overall,    \* cluster_overall: the copy of all the labels
    started,            \* the labels p.start() was called for, in order
    \* ---- __main__.process, the TP/TN tables (lines 284-287, 354-370)
    tp_pc,              \* position in process
    tp_cls_ser,         \* cls_ser: the label of each cell
    tp_discrete_exp,    \* discrete_exp: the 0/1 calls of each cell, by gene
    tp_cls,             \* cls: the cluster of interest
    sing_tp_tn,         \* sing_tp_tn: rows [genes, target, TP, TN]
    other_sing_tp_tn,   \* other_sing_tp_tn, the rows of every other cluster
    pair_tp_tn,         \* pair_tp_tn
    other_pair_tp_tn,   \* other_pair_tp_tn, the rows of the keys done so far
    \* ---- __main__.read_data (cells, downsampling) and main's filter
    rd_pc,              \* position in read_data, then in main
    rd_cls_ser,         \* cls_ser: rows [cell, cluster], in index order
    rd_marker_cells,    \* the cells of the expression matrix, in order
    rd_D,               \* D: False (None here) or the downsample target
    cls_ser_in,         \* cls_ser as the downsampling found it
    rd_N,               \* N
    rd_M,               \* M
    counts,             \* counts
    take_nums,          \* take_nums
    new_cls_ser,        \* new_cls_ser
    num,                \* num
    \* ---- __main__.read_data, the gene list (lines 102-142)
    gl_pc,              \* position in read_data
    gene_path,          \* gene_path: "None" or the path of the gene list
    lines,              \* lines: the lines of the file, each a list of the
                        \* names that commas separate
    columns,            \* no_complement_marker_exp.columns, in order
    master_gene_list,   \* master_gene_list
    new_columns         \* the columns of the filtered matrix, in order

st_vars == <<st_pc, cells_cluster, cluster, xl_valid, n_genes, gene, exp, v,
             raw_cutoff_index, mHG_cutoff_index, mHG_cutoff_value, output>>

rk_vars == <<rk_pc, sing_output, singleton_csv>>

tb_vars == <<tb_pc, K, Trim, pair, pair_out_initial, ranked_pair, trips,
             trips_output, quads_fin, quads_final, tb_sing_output, csv>>

dx_vars == <<dx_pc, marker_exp, mHG_cutoff, cutoff_value, discrete_exp>>

ab_vars == <<ab_pc, ab_K, abbrev, stat_order, xlmhg, count, trips_list,
             trips_genes, n_trips>>

mn_vars == <<mn_pc, mn_K, clusters, cores, group_num, element, new_clusters,
             jobs, p, worker, written, mutated, cluster_overall, started>>

tp_vars == <<tp_pc, tp_cls_ser, tp_discrete_exp, tp_cls, sing_tp_tn,
             other_sing_tp_tn, pair_tp_tn, other_pair_tp_tn>>

rd_vars == <<rd_pc, rd_cls_ser, rd_marker_cells, rd_D, cls_ser_in, rd_N, rd_M,
             counts, take_nums, new_cls_ser, num>>

gl_vars == <<gl_pc, gene_path, lines, columns, master_gene_list, new_columns>>

vars == <<st_vars, rk_vars, tb_vars, dx_vars, ab_vars, mn_vars, tp_vars,
          rd_vars, gl_vars>>

\* what an action of one function leaves alone: the state of the others
st_others == <<rk_vars, tb_vars, dx_vars, ab_vars, mn_vars,
               tp_vars, rd_vars, gl_vars>>
rk_others == <<st_vars, tb_vars, dx_vars, ab_vars, mn_vars,
               tp_vars, rd_vars, gl_vars>>
tb_others == <<st_vars, rk_vars, dx_vars, ab_vars, mn_vars,
               tp_vars, rd_vars, gl_vars>>
dx_others == <<st_vars, rk_vars, tb_vars, ab_vars, mn_vars,
               tp_vars, rd_vars, gl_vars>>
ab_others == <<st_vars, rk_vars, tb_vars, dx_vars, mn_vars,
               tp_vars, rd_vars, gl_vars>>
mn_others == <<st_vars, rk_vars, tb_vars, dx_vars, ab_vars,
               tp_vars, rd_vars, gl_vars>>
tp_others == <<st_vars, rk_vars, tb_vars, dx_vars, ab_vars, mn_vars,
               rd_vars, gl_vars>>
rd_others == <<st_vars, rk_vars, tb_vars, dx_vars, ab_vars, mn_vars,
               tp_vars, gl_vars>>
gl_others == <<st_vars, rk_vars, tb_vars, dx_vars, ab_vars, mn_vars,
               tp_vars, rd_vars>>

\* ------------------------------------------------------------ pure helpers

\* All bijections of 1..n: the row orders a sort may produce.
RowOrders(n) ==
    {perm \in [1..n -> 1..n] :
        \A i, j \in 1..n : i # j => perm[i] # perm[j]}

\* DataFrame.sort_values(by=gene, ascending=False) with the default
\* kind='quicksort': rows are in non-increasing order of the key, the order of
\* rows with equal keys is whatever the unstable sort leaves.
SortValuesDescending(col, orders) ==
    {perm \in orders :
        \A i \in 1..(Len(col) - 1) : col[perm[i]] >= col[perm[i + 1]]}

\* numpy.searchsorted(a, x, side='right'): a[i-1] <= x < a[i].
RECURSIVE SearchRightFrom(_, _, _, _)
SearchRightFrom(a, x, lo, hi) ==
    IF lo >= hi THEN lo
    ELSE LET mid == lo + ((hi - lo) \div 2)
         IN IF a[mid + 1] <= x
            THEN SearchRightFrom(a, x, mid + 1, hi)
            ELSE SearchRightFrom(a, x, lo, mid)

SearchSortedRight(a, x) == SearchRightFrom(a, x, 0, Len(a))

\* a search that returns the last position holding x, for an x that occurs
SearchSortedLast(a, x) == SearchSortedRight(a, x) - 1

\* numpy.searchsorted(a, x, side='left'): binary search for the insertion
\* point i with a[i-1] < x <= a[i], 0-based, over an ascending array.
RECURSIVE SearchLeftFrom(_, _, _, _)
SearchLeftFrom(a, x, lo, hi) ==
    IF lo >= hi THEN lo
    ELSE LET mid == lo + ((hi - lo) \div 2)
         IN IF a[mid + 1] < x
            THEN SearchLeftFrom(a, x, mid + 1, hi)
            ELSE SearchLeftFrom(a, x, lo, mid)

SearchSortedLeft(a, x) == SearchLeftFrom(a, x, 0, Len(a))

Negate(s) == [i \in 1..Len(s) |-> 0 - s[i]]

ExpValues(e) == [i \in 1..Len(e) |-> e[i].val]

\* exp.iloc[index][gene]
CutoffValueAt(e, index) == e[index + 1].val

\* the slide without the negation that makes the descending column ascending
SlideIndexNoNegate(e, value) == SearchSortedLeft(ExpValues(e), value)

\* The slide: np.searchsorted(-exp[gene].values, -mHG_cutoff_value, 'left')
SlideIndex(e, value) == SearchSortedLeft(Negate(ExpValues(e)), 0 - value)

\* hg.xlmhg_test(v, X, L): the cutoff positions the library may return.  With
\* no cell or every cell in the cluster the statistic is 1.0 at cutoff 0;
\* otherwise the cutoff is the number of top cells of the best enrichment,
\* which is less than the population size.
XlmhgCutoffs(vec) ==
    LET N == Len(vec)
        members == Cardinality({i \in 1..N : vec[i] = 1})
    IN IF members = 0 \/ members = N THEN {0} ELSE 0..(N - 1)

\* --------------------------------------------------------- singleton_test

CsvNames == {"singleton", "pair_HG_stat_ranked", "pair_final_ranking",
             "trips", "quads"}

\* a file that was not written, and DataFrame.to_csv(path) of a table
NoFile == [written |-> FALSE, rows |-> <<>>]
ToCsv(tbl) == [written |-> TRUE, rows |-> tbl]

RKIdle ==
    /\ rk_pc = "idle"
    /\ sing_output = <<>>
    /\ singleton_csv = NoFile

TBIdle ==
    /\ tb_pc = "idle"
    /\ K = None
    /\ Trim = None
    /\ pair = <<>>
    /\ pair_out_initial = <<>>
    /\ ranked_pair = <<>>
    /\ trips = <<>>
    /\ trips_output = <<>>
    /\ quads_fin = <<>>
    /\ quads_final = <<>>
    /\ tb_sing_output = <<>>
    /\ csv = [name \in CsvNames |-> NoFile]

\* the columns of marker_exp: a gene and its complement
Columns == {"A", "A_c"}
IsComplement(col) == col = "A_c"

DXIdle ==
    /\ dx_pc = "idle"
    /\ marker_exp = [col \in Columns |-> <<>>]
    /\ mHG_cutoff = [col \in Columns |-> None]
    /\ cutoff_value = [col \in Columns |-> None]
    /\ discrete_exp = [col \in Columns |-> <<>>]

\* trips_list = None, and a trips_list that is a list
NoneList == [is_none |-> TRUE, items |-> <<>>]
ListOf(items) == [is_none |-> FALSE, items |-> items]

ABIdle ==
    /\ ab_pc = "idle"
    /\ ab_K = None
    /\ abbrev = "[]"
    /\ stat_order = "idle"
    /\ xlmhg = <<>>
    /\ count = 0
    /\ trips_list = NoneList
    /\ trips_genes = {}
    /\ n_trips = 0

MNIdle ==
    /\ mn_pc = "idle"
    /\ mn_K = None
    /\ clusters = <<>>
    /\ cores = None
    /\ group_num = None
    /\ element = None
    /\ new_clusters = <<>>
    /\ jobs = <<>>
    /\ p = None
    /\ worker = [cls \in 1..MaxClusters |-> "unstarted"]
    /\ written = {}
    /\ mutated = {}
    /\ cluster_overall = <<>>
    /\ started = <<>>

TPIdle ==
    /\ tp_pc = "idle"
    /\ tp_cls_ser = <<>>
    /\ tp_discrete_exp = <<>>
    /\ tp_cls = "idle"
    /\ sing_tp_tn = {}
    /\ other_sing_tp_tn = {}
    /\ pair_tp_tn = {}
    /\ other_pair_tp_tn = {}

RDIdle ==
    /\ rd_pc = "idle"
    /\ rd_cls_ser = <<>>
    /\ rd_marker_cells = <<>>
    /\ rd_D = None
    /\ cls_ser_in = <<>>
    /\ rd_N = None
    /\ rd_M = None
    /\ counts = [x \in ClusterLabels |-> 0]
    /\ take_nums = [x \in ClusterLabels |-> 0]
    /\ new_cls_ser = <<>>
    /\ num = None

GLIdle ==
    /\ gl_pc = "idle"
    /\ gene_path = "None"
    /\ lines = <<>>
    /\ columns = <<>>
    /\ master_gene_list = <<>>
    /\ new_columns = <<>>

STInit ==
    /\ GLIdle
    /\ RDIdle
    /\ TPIdle
    /\ MNIdle
    /\ RKIdle
    /\ TBIdle
    /\ DXIdle
    /\ ABIdle
    /\ st_pc = "loop"
    /\ cells_cluster \in UNION {[1..n -> ClusterLabels] : n \in 1..MaxCells}
    /\ cluster \in RequestedLabels
    /\ xl_valid \in BOOLEAN
    /\ n_genes \in 1..Len(GeneColumns)
    /\ gene = 0
    /\ exp = <<>>
    /\ v = <<>>
    /\ raw_cutoff_index = None
    /\ mHG_cutoff_index = None
    /\ mHG_cutoff_value = None
    /\ output = <<>>

\* for index, gene in enumerate(cells.columns[3:]):  exp = cells[[...]];
\* exp = exp.sort_values(...); v = (exp['cluster'] == cluster)
\* The gene's expression column is an input, drawn when its iteration starts.
SortByExpression ==
    /\ st_pc = "loop"
    /\ gene < n_genes
    /\ LET orders == RowOrders(Len(cells_cluster))
       IN \E col \in [1..Len(cells_cluster) -> ExprValues] :
          \E perm \in SortValuesDescending(col, orders) :
          /\ exp' = [i \in 1..Len(col) |->
                        [cluster |-> cells_cluster[perm[i]],
                         val |-> col[perm[i]]]]
          /\ v' = [i \in 1..Len(col) |->
                        IF cells_cluster[perm[i]] = cluster THEN 1 ELSE 0]
    /\ UNCHANGED st_others
    /\ st_pc' = "sorted"
    /\ UNCHANGED <<cells_cluster, cluster, xl_valid, n_genes, gene,
                   raw_cutoff_index, mHG_cutoff_index, mHG_cutoff_value,
                   output>>

\* HG_stat, mHG_cutoff_index, mHG_pval = hg.xlmhg_test(v, X=X, L=L)
\* mHG_cutoff_value = exp.iloc[mHG_cutoff_index][gene]
XlmhgTest ==
    /\ st_pc = "sorted"
    /\ xl_valid
    /\ \E c \in XlmhgCutoffs(v) :
          /\ raw_cutoff_index' = c
          /\ mHG_cutoff_index' = c
          /\ mHG_cutoff_value' = CutoffValueAt(exp, c)
    /\ UNCHANGED st_others
    /\ st_pc' = "tested"
    /\ UNCHANGED <<cells_cluster, cluster, xl_valid, n_genes, gene, exp, v,
                   output>>

\* xlmhg_test raises ValueError for an X or L outside its valid range; nothing
\* in singleton_test catches it.
XlmhgRaise ==
    /\ st_pc = "sorted"
    /\ ~xl_valid
    /\ UNCHANGED st_others
    /\ st_pc' = "ValueError"
    /\ UNCHANGED <<cells_cluster, cluster, xl_valid, n_genes, gene, exp, v,
                   raw_cutoff_index, mHG_cutoff_index, mHG_cutoff_value,
                   output>>

\* mHG_cutoff_index = np.searchsorted(-exp[gene].values, -mHG_cutoff_value,
\*                                    side='left')
Slide ==
    /\ st_pc = "tested"
    /\ mHG_cutoff_index' = SlideIndex(exp, mHG_cutoff_value)
    /\ UNCHANGED st_others
    /\ st_pc' = "slid"
    /\ UNCHANGED <<cells_cluster, cluster, xl_valid, n_genes, gene, exp, v,
                   raw_cutoff_index, mHG_cutoff_value, output>>

\* the t-test, gene_data, output = output.append(gene_data, ...)
AppendGeneData ==
    /\ st_pc = "slid"
    /\ output' = Append(output,
                        [gene |-> GeneColumns[gene + 1],
                         mHG_cutoff_index |-> mHG_cutoff_index,
                         mHG_cutoff_value |-> mHG_cutoff_value])
    /\ gene' = gene + 1
    /\ UNCHANGED st_others
    /\ st_pc' = "loop"
    /\ UNCHANGED <<cells_cluster, cluster, xl_valid, n_genes, exp, v,
                   raw_cutoff_index, mHG_cutoff_index, mHG_cutoff_value>>

\* the ranks are joined and the table is returned
ReturnOutput ==
    /\ st_pc = "loop"
    /\ gene = n_genes
    /\ UNCHANGED st_others
    /\ st_pc' = "returned"
    /\ UNCHANGED <<cells_cluster, cluster, xl_valid, n_genes, gene, exp, v,
                   raw_cutoff_index, mHG_cutoff_index, mHG_cutoff_value,
                   output>>

STNext ==
    \/ SortByExpression
    \/ XlmhgTest
    \/ XlmhgRaise
    \/ Slide
    \/ AppendGeneData
    \/ ReturnOutput

SpecSingleton == STInit /\ [][STNext]_vars

\* ------------------------------------------------- claims: singleton_test

PopulationSize == Len(cells_cluster)

\* C1: the cutoff slide is idempotent.  Once the slide has acted, the slid
\* index is a position of the sorted column, and taking the value at the slid
\* index and searching the sorted column for it again returns the same index
\* and the same cutoff value, for every tie pattern and every raw index.
C1_SlideIdempotent ==
    st_pc = "slid" =>
        /\ mHG_cutoff_index \in 0..(PopulationSize - 1)
        /\ CutoffValueAt(exp, mHG_cutoff_index) = mHG_cutoff_value
        /\ SlideIndex(exp, CutoffValueAt(exp, mHG_cutoff_index))
              = mHG_cutoff_index

\* a tie made the slide move the raw index
C1_Witness ==
    /\ st_pc = "slid"
    /\ raw_cutoff_index > mHG_cutoff_index

\* C2: after the slide the reported index i and value c agree: every cell at
\* a sorted position before i has expression strictly greater than c, every
\* cell at position i or later has expression at most c.
C2_IndexAgreesWithValue ==
    st_pc = "slid" =>
        \A j \in 0..(PopulationSize - 1) :
            /\ j < mHG_cutoff_index => exp[j + 1].val > mHG_cutoff_value
            /\ j >= mHG_cutoff_index => exp[j + 1].val <= mHG_cutoff_value

\* the cutoff value is tied, with expressing cells before it and the raw
\* index inside the run of ties
C2_Witness ==
    /\ st_pc = "slid"
    /\ mHG_cutoff_index > 0
    /\ raw_cutoff_index # mHG_cutoff_index
    /\ exp[PopulationSize].val = mHG_cutoff_value

\* The cluster of interest is degenerate: no cell carries the label, or every
\* cell does.
DegenerateCluster ==
    \/ \A i \in 1..PopulationSize : cells_cluster[i] # cluster
    \/ \A i \in 1..PopulationSize : cells_cluster[i] = cluster

\* C9: singleton_test rejects a degenerate cluster of interest: it never
\* returns a result table for one (it fails with ValueError instead).
C9_DegenerateClusterRejected ==
    DegenerateCluster => st_pc # "returned"

\* ------------------------------------- process: the singleton rank fusion

\* a sample of mHG statistics and of log2 fold changes
StatValues == {1, 2, 3}
FoldChangeValues == {1, 2}

\* xlmhg's p-value of a statistic: for one cluster (one N and K) it is a
\* non-decreasing function of the statistic; distinct statistics may share it.
MhgPval(stat) == (stat + 1) \div 2

STIdle ==
    /\ st_pc = "idle"
    /\ cells_cluster = <<>>
    /\ cluster = None
    /\ xl_valid = FALSE
    /\ n_genes = 0
    /\ gene = 0
    /\ exp = <<>>
    /\ v = <<>>
    /\ raw_cutoff_index = None
    /\ mHG_cutoff_index = None
    /\ mHG_cutoff_value = None
    /\ output = <<>>

\* DataFrame.sort_values(by=key, ascending=True) with the default
\* kind='quicksort', which is not stable: every row order that is
\* non-decreasing in the key.  key[i] is the sort key of row i.
SortValuesAscending(tbl, key) ==
    {[i \in 1..Len(tbl) |-> tbl[perm[i]]] : perm \in
        {q \in RowOrders(Len(tbl)) :
            \A i \in 1..(Len(tbl) - 1) : key[q[i]] <= key[q[i + 1]]}}

\* df[col] = df.reset_index().index + 1 : the row's 1-based position
WithPosition(tbl, col) ==
    [i \in 1..Len(tbl) |-> [tbl[i] EXCEPT ![col] = i]]

StatKey(tbl) == [i \in 1..Len(tbl) |-> tbl[i].mHG_stat]
NegFoldChangeKey(tbl) ==
    [i \in 1..Len(tbl) |-> 0 - tbl[i].Log2FoldChange]
FinrankKey(tbl) == [i \in 1..Len(tbl) |-> tbl[i].finrank2]

\* The state before line 387: xlmhg (sorted by mHG_stat at lines 245-246)
\* with the t-test, fold-change, TP/TN and q-value tables, one row per gene.
\* The merges keep xlmhg's rows in xlmhg's order.
RKInit ==
    /\ GLIdle
    /\ RDIdle
    /\ TPIdle
    /\ MNIdle
    /\ STIdle
    /\ TBIdle
    /\ DXIdle
    /\ ABIdle
    /\ rk_pc = "merge"
    /\ \E n \in 1..MaxGenes :
       \E stat \in [1..n -> StatValues] :
       \E fc \in [1..n -> FoldChangeValues] :
          sing_output = [g \in 1..n |->
              [gene_1 |-> g, mHG_stat |-> stat[g],
               Log2FoldChange |-> fc[g],
               hgrank |-> None, fcrank |-> None, finrank2 |-> None,
               rank |-> None]]
    /\ singleton_csv = NoFile

\* sing_output = xlmhg.merge(...)...sort_values(by='mHG_stat', ascending=True)
\* sing_output['hgrank'] = sing_output.reset_index().index + 1
RankByStat ==
    /\ rk_pc = "merge"
    /\ \E sorted \in SortValuesAscending(sing_output, StatKey(sing_output)) :
          sing_output' = WithPosition(sorted, "hgrank")
    /\ UNCHANGED rk_others
    /\ rk_pc' = "hgranked"
    /\ UNCHANGED singleton_csv

\* sing_output.sort_values(by='Log2FoldChange', ascending=False, inplace=True)
\* sing_output['fcrank'] = sing_output.reset_index().index + 1
RankByFoldChange ==
    /\ rk_pc = "hgranked"
    /\ \E sorted \in SortValuesAscending(sing_output,
                                          NegFoldChangeKey(sing_output)) :
          sing_output' = WithPosition(sorted, "fcrank")
    /\ UNCHANGED rk_others
    /\ rk_pc' = "fcranked"
    /\ UNCHANGED singleton_csv

\* sing_output['finrank'] = sing_output[['hgrank', 'fcrank']].mean(axis=1)
\* (kept doubled, so that it stays an integer)
MeanRank ==
    /\ rk_pc = "fcranked"
    /\ sing_output' = [i \in 1..Len(sing_output) |->
          [sing_output[i] EXCEPT
              !.finrank2 = sing_output[i].hgrank + sing_output[i].fcrank]]
    /\ UNCHANGED rk_others
    /\ rk_pc' = "averaged"
    /\ UNCHANGED singleton_csv

\* the final sort with the rank taken from the averages themselves
\* (Series.rank(method='min')): rows with equal averages share a rank
RankByFinrankTied ==
    /\ rk_pc = "averaged"
    /\ \E sorted \in SortValuesAscending(sing_output, FinrankKey(sing_output)) :
          sing_output' = [i \in 1..Len(sorted) |->
              [sorted[i] EXCEPT !.rank = 1 + Cardinality(
                  {j \in 1..Len(sorted) :
                      sorted[j].finrank2 < sorted[i].finrank2})]]
    /\ UNCHANGED rk_others
    /\ rk_pc' = "ranked"
    /\ UNCHANGED singleton_csv

\* sing_output.sort_values(by='finrank', ascending=True, inplace=True)
\* sing_output['rank'] = sing_output.reset_index().index + 1
RankByFinrank ==
    /\ rk_pc = "averaged"
    /\ \E sorted \in SortValuesAscending(sing_output, FinrankKey(sing_output)) :
          sing_output' = WithPosition(sorted, "rank")
    /\ UNCHANGED rk_others
    /\ rk_pc' = "ranked"
    /\ UNCHANGED singleton_csv

\* sing_output.drop('finrank', ...); the Plot marks;
\* sing_output.to_csv(csv_path + '/cluster_' + str(cls) + '_singleton.csv')
WriteSingleton ==
    /\ rk_pc = "ranked"
    /\ singleton_csv' = ToCsv(sing_output)
    /\ UNCHANGED rk_others
    /\ rk_pc' = "written"
    /\ UNCHANGED sing_output

RKNext ==
    \/ RankByStat
    \/ RankByFoldChange
    \/ MeanRank
    \/ RankByFinrank
    \/ WriteSingleton

SpecRank == RKInit /\ [][RKNext]_vars

\* ------------------------------------------------ claims: the rank fusion

Ranks(tbl) == {tbl[i].rank : i \in 1..Len(tbl)}

\* C4: the 'rank' column of the singleton table is a total order without
\* duplicates: for n genes the ranks are exactly 1..n, each used once, also
\* when genes have equal averaged scores.
C4_RanksAreOneToN ==
    rk_pc \in {"ranked", "written"} =>
        /\ Ranks(sing_output) = 1..Len(sing_output)
        /\ \A i, j \in 1..Len(sing_output) :
              sing_output[i].rank = sing_output[j].rank => i = j
        /\ {sing_output[i].gene_1 : i \in 1..Len(sing_output)}
              = 1..Len(sing_output)

\* the table is ranked and two genes have the same averaged score
C4_Witness ==
    /\ rk_pc = "written"
    /\ \E i, j \in 1..Len(sing_output) :
          /\ i # j
          /\ sing_output[i].finrank2 = sing_output[j].finrank2

\* C6: the singleton rank is the re-ranked average of the rank by mHG p-value
\* (ascending) and the rank by fold change (descending); rows with equal
\* averages keep the order they had when the averages were sorted (a stable
\* sort: at that point the rows are in fold-change order).
C6_RankIsStableRerankedAverage ==
    rk_pc \in {"ranked", "written"} =>
        \A i, j \in 1..Len(sing_output) :
            LET a == sing_output[i]
                b == sing_output[j]
            IN /\ MhgPval(a.mHG_stat) < MhgPval(b.mHG_stat)
                    => a.hgrank < b.hgrank
               /\ a.Log2FoldChange > b.Log2FoldChange => a.fcrank < b.fcrank
               /\ a.finrank2 = a.hgrank + a.fcrank
               /\ a.finrank2 < b.finrank2 => a.rank < b.rank
               /\ (a.finrank2 = b.finrank2 /\ a.fcrank < b.fcrank)
                    => a.rank < b.rank

\* --------------------------------------- process: the tables and Trim, K

\* a sample of the values of a table's significance column
KeyValues == {1, 2}

\* args.K as argparse leaves it: None (no -K) or the text of an integer
KArgs == {None, 1, 2, 3, 4, 5, 6}

\* main: K = int(K) if K is not None else 2; if K > 4: K = 4
ClampK(arg) ==
    IF arg = None THEN 2
    ELSE IF arg > 4 THEN 4 ELSE arg

\* a table a test function returns: rows in discovery order, each with the
\* value of its significance column
ResultTables ==
    UNION {{[i \in 1..n |-> [id |-> i, key |-> keys[i], rank |-> None]] :
                keys \in [1..n -> KeyValues]} : n \in 0..MaxRows}

\* sing_output as the rank fusion leaves it: n genes with ranks 1..n
RankedSingletons ==
    {[i \in 1..n |-> [id |-> i, key |-> None, rank |-> i]] : n \in 1..MaxRows}

RowKey(tbl) == [i \in 1..Len(tbl) |-> tbl[i].key]

\* DataFrame.head(n) for n >= 0: the first n rows, all rows if there are fewer
DataFrameHead(tbl, n) ==
    SubSeq(tbl, 1, IF n < Len(tbl) THEN n ELSE Len(tbl))

\* hgmd.ranker(pair, ...): the pairs in the order of their final rank, the
\* rank being the row position
RankerOutcomes(tbl) ==
    {WithPosition([i \in 1..Len(tbl) |-> tbl[perm[i]]], "rank") :
        perm \in RowOrders(Len(tbl))}

\* process is entered with K and Trim as main parsed them
TBInit ==
    /\ GLIdle
    /\ RDIdle
    /\ TPIdle
    /\ MNIdle
    /\ STIdle
    /\ RKIdle
    /\ DXIdle
    /\ ABIdle
    /\ tb_pc = "quads"
    /\ K \in {ClampK(arg) : arg \in KArgs}
    /\ Trim \in 1..MaxRows
    /\ pair = <<>>
    /\ pair_out_initial = <<>>
    /\ ranked_pair = <<>>
    /\ trips = <<>>
    /\ trips_output = <<>>
    /\ quads_fin = <<>>
    /\ quads_final = <<>>
    /\ tb_sing_output = <<>>
    /\ csv = [name \in CsvNames |-> NoFile]

\* if K >= 4: quads.combination_product(...); quads_fin = quads.quads_hg(...)
\* if K == 3: hgmd.combination_product(...)
QuadsAndTripsProduct ==
    /\ tb_pc = "quads"
    /\ IF K >= 4
       THEN quads_fin' \in ResultTables
       ELSE UNCHANGED quads_fin
    /\ tb_pc' = "pair_hg"
    /\ UNCHANGED tb_others
    /\ UNCHANGED <<K, Trim, pair, pair_out_initial, ranked_pair, trips,
                   trips_output, quads_final, tb_sing_output, csv>>

\* pair, revised_indices = hgmd.pair_hg(...);
\* pair_out_initial = pair.sort_values(by='HG_pval', ascending=True)
\* pair_out_initial['rank'] = pair_out_initial.reset_index().index + 1
\* pair_out_print = pair_out_initial.head(Trim); pair_out_print.to_csv(...)
PairTest ==
    /\ tb_pc = "pair_hg"
    /\ \E tbl \in ResultTables :
       \E sorted \in SortValuesAscending(tbl, RowKey(tbl)) :
          /\ pair' = tbl
          /\ pair_out_initial' = WithPosition(sorted, "rank")
          /\ csv' = [csv EXCEPT !["pair_HG_stat_ranked"] =
                ToCsv(DataFrameHead(WithPosition(sorted, "rank"), Trim))]
    /\ tb_pc' = "trips_hg"
    /\ UNCHANGED tb_others
    /\ UNCHANGED <<K, Trim, ranked_pair, trips, trips_output, quads_fin,
                   quads_final, tb_sing_output>>

\* if K == 3: trips = hgmd.trips_hg(...) or hgmd.trips_hg_full(...)
TripsTest ==
    /\ tb_pc = "trips_hg"
    /\ IF K = 3
       THEN trips' \in ResultTables
       ELSE UNCHANGED trips
    /\ tb_pc' = "ranker"
    /\ UNCHANGED tb_others
    /\ UNCHANGED <<K, Trim, pair, pair_out_initial, ranked_pair,
                   trips_output, quads_fin, quads_final, tb_sing_output, csv>>

\* the pair TP/TN tables; ranked_pair, histogram = hgmd.ranker(pair, ...)
Ranker ==
    /\ tb_pc = "ranker"
    /\ ranked_pair' \in RankerOutcomes(pair)
    /\ tb_pc' = "singleton"
    /\ UNCHANGED tb_others
    /\ UNCHANGED <<K, Trim, pair, pair_out_initial, trips, trips_output,
                   quads_fin, quads_final, tb_sing_output, csv>>

\* sing_output = ... (the rank fusion);
\* sing_output.to_csv(csv_path + '/cluster_' + str(cls) + '_singleton.csv')
SingletonCsv ==
    /\ tb_pc = "singleton"
    /\ \E tbl \in RankedSingletons :
          /\ tb_sing_output' = tbl
          /\ csv' = [csv EXCEPT !["singleton"] = ToCsv(tbl)]
    /\ tb_pc' = "final_ranking"
    /\ UNCHANGED tb_others
    /\ UNCHANGED <<K, Trim, pair, pair_out_initial, ranked_pair, trips,
                   trips_output, quads_fin, quads_final>>

\* ranked_print = ranked_pair.head(Trim); ranked_print.to_csv(...)
FinalRankingCsv ==
    /\ tb_pc = "final_ranking"
    /\ csv' = [csv EXCEPT !["pair_final_ranking"] =
                  ToCsv(DataFrameHead(ranked_pair, Trim))]
    /\ tb_pc' = "trips_csv"
    /\ UNCHANGED tb_others
    /\ UNCHANGED <<K, Trim, pair, pair_out_initial, ranked_pair, trips,
                   trips_output, quads_fin, quads_final, tb_sing_output>>

\* if K == 3: trips_output = trips.sort_values(by='HG_stat', ascending=True);
\*     trips_output['rank'] = ...; trips_print = trips_output.head(Trim);
\*     trips_print.to_csv(...)
\* else: trips_output = int(1)
TripsCsv ==
    /\ tb_pc = "trips_csv"
    /\ IF K = 3
       THEN \E sorted \in SortValuesAscending(trips, RowKey(trips)) :
               /\ trips_output' = WithPosition(sorted, "rank")
               /\ csv' = [csv EXCEPT !["trips"] =
                    ToCsv(DataFrameHead(WithPosition(sorted, "rank"), Trim))]
       ELSE /\ trips_output' = 1
            /\ UNCHANGED csv
    /\ tb_pc' = "quads_csv"
    /\ UNCHANGED tb_others
    /\ UNCHANGED <<K, Trim, pair, pair_out_initial, ranked_pair, trips,
                   quads_fin, quads_final, tb_sing_output>>

\* if K >= 4: quads_final = quads_fin.sort_values(by='HG_stat', ...);
\*     quads_final['rank'] = ...; quads_print = quads_final.head(Trim);
\*     quads_print.to_csv(...)
\* else: quads_final = int(1)
QuadsCsv ==
    /\ tb_pc = "quads_csv"
    /\ IF K >= 4
       THEN \E sorted \in SortValuesAscending(quads_fin, RowKey(quads_fin)) :
               /\ quads_final' = WithPosition(sorted, "rank")
               /\ csv' = [csv EXCEPT !["quads"] =
                    ToCsv(DataFrameHead(WithPosition(sorted, "rank"), Trim))]
       ELSE /\ quads_final' = 1
            /\ UNCHANGED csv
    /\ tb_pc' = "plots"
    /\ UNCHANGED tb_others
    /\ UNCHANGED <<K, Trim, pair, pair_out_initial, ranked_pair, trips,
                   trips_output, quads_fin, tb_sing_output>>

\* vis.make_plots(...); process returns
MakePlots ==
    /\ tb_pc = "plots"
    /\ tb_pc' = "done"
    /\ UNCHANGED tb_others
    /\ UNCHANGED <<K, Trim, pair, pair_out_initial, ranked_pair, trips,
                   trips_output, quads_fin, quads_final, tb_sing_output, csv>>

TBNext ==
    \/ QuadsAndTripsProduct
    \/ PairTest
    \/ TripsTest
    \/ Ranker
    \/ SingletonCsv
    \/ FinalRankingCsv
    \/ TripsCsv
    \/ QuadsCsv
    \/ MakePlots

SpecTables == TBInit /\ [][TBNext]_vars

\* ---------------------------------------------------- claims: the tables

\* the ranked table each CSV file is written from
RankedTable(name) ==
    CASE name = "singleton" -> tb_sing_output
      [] name = "pair_HG_stat_ranked" -> pair_out_initial
      [] name = "pair_final_ranking" -> ranked_pair
      [] name = "trips" -> trips_output
      [] name = "quads" -> quads_final

\* C5: Trim=N truncates every table process writes (singleton, pair,
\* final-ranked pair, triple, quad) to its N highest-ranked rows (all rows of
\* a table that has at most N), in the order and with the ranks of the first
\* N rows of the untrimmed ranked table.
C5_TrimTruncatesEveryTable ==
    tb_pc = "done" =>
        \A name \in CsvNames :
            csv[name].written =>
                /\ Len(csv[name].rows) <= Trim
                /\ csv[name].rows = DataFrameHead(RankedTable(name), Trim)

\* the combination order of each CSV table
TableOrder(name) ==
    CASE name = "singleton" -> 1
      [] name = "pair_HG_stat_ranked" -> 2
      [] name = "pair_final_ranking" -> 2
      [] name = "trips" -> 3
      [] name = "quads" -> 4

\* C8: K is the maximum combination order: for K in {2,3,4} process writes a
\* ranked table for every order k with 1 <= k <= K and for no order above K.
C8_TablesForEveryOrderUpToK ==
    (tb_pc = "done" /\ K \in {2, 3, 4}) =>
        \A name \in CsvNames :
            csv[name].written <=> TableOrder(name) <= K

\* ---------------------------- process: cutoff values and the discretizer

\* the values of a column in the order the XL-mHG test ranks the cells:
\* descending, ascending for a complement (ties in any order: the multiset of
\* values at each position is the same)
RECURSIVE CountAbove(_, _, _)
CountAbove(col, x, i) ==
    IF i = 0 THEN 0
    ELSE (IF col[i] > x THEN 1 ELSE 0) + CountAbove(col, x, i - 1)

RECURSIVE CountBelow(_, _, _)
CountBelow(col, x, i) ==
    IF i = 0 THEN 0
    ELSE (IF col[i] < x THEN 1 ELSE 0) + CountBelow(col, x, i - 1)

\* hgmd.mhg_cutoff_value(marker_exp, cutoffs): the value at 0-based position
\* index of the column sorted in test order.  It is the value x with at most
\* index cells ranked strictly before it and more than index cells ranked at
\* or before it.
MhgCutoffValue(col, index, complement) ==
    LET n == Len(col)
        before(x) == IF complement THEN CountBelow(col, x, n)
                                   ELSE CountAbove(col, x, n)
        same(x) == Cardinality({i \in 1..n : col[i] = x})
    IN CHOOSE x \in {col[i] : i \in 1..n} :
          before(x) <= index /\ index < before(x) + same(x)

\* a discretizer that calls a cell expressing when it is exactly at the cutoff
DiscreteCallAtCutoff(value, c, complement) ==
    IF value = c THEN 1 ELSE 0

\* hgmd.discrete_exp, one cell of one column: expression > c -> 1, else 0;
\* for a complement the inequality is reversed (< c -> 1)
DiscreteCall(value, c, complement) ==
    IF complement
    THEN (IF value < c THEN 1 ELSE 0)
    ELSE (IF value > c THEN 1 ELSE 0)

\* marker_exp as main passes it: the complement column describes the same
\* cells as its gene
DXInit ==
    /\ GLIdle
    /\ RDIdle
    /\ TPIdle
    /\ MNIdle
    /\ STIdle
    /\ RKIdle
    /\ TBIdle
    /\ ABIdle
    /\ dx_pc = "xlmhg"
    /\ \E n \in 1..MaxCells :
       \E col \in [1..n -> ExprValues] :
          marker_exp = [c \in Columns |-> col]
    /\ mHG_cutoff = [col \in Columns |-> None]
    /\ cutoff_value = [col \in Columns |-> None]
    /\ discrete_exp = [col \in Columns |-> <<>>]

\* xlmhg = hgmd.batch_xlmhg(marker_exp, cls_ser, cls, X=X, L=L)
BatchXlmhg ==
    /\ dx_pc = "xlmhg"
    /\ mHG_cutoff' \in [Columns -> 0..(Len(marker_exp["A"]) - 1)]
    /\ dx_pc' = "cutoff"
    /\ UNCHANGED dx_others
    /\ UNCHANGED <<marker_exp, cutoff_value, discrete_exp>>

\* cutoff_value = hgmd.mhg_cutoff_value(...); xlmhg = ...merge(hgmd.mhg_slide(
\* marker_exp, cutoff_value)); cutoff_value = pd.Series(xlmhg['cutoff_val'])
\* (the slide moves the index, the cutoff value stays the value at the index)
CutoffValues ==
    /\ dx_pc = "cutoff"
    /\ cutoff_value' = [col \in Columns |->
          MhgCutoffValue(marker_exp[col], mHG_cutoff[col], IsComplement(col))]
    /\ dx_pc' = "discretize"
    /\ UNCHANGED dx_others
    /\ UNCHANGED <<marker_exp, mHG_cutoff, discrete_exp>>

\* discrete_exp = hgmd.discrete_exp(marker_exp, cutoff_value, trips_list)
Discretize ==
    /\ dx_pc = "discretize"
    /\ discrete_exp' = [col \in Columns |->
          [i \in 1..Len(marker_exp[col]) |->
              DiscreteCall(marker_exp[col][i], cutoff_value[col],
                           IsComplement(col))]]
    /\ dx_pc' = "discrete"
    /\ UNCHANGED dx_others
    /\ UNCHANGED <<marker_exp, mHG_cutoff, cutoff_value>>

DXNext ==
    \/ BatchXlmhg
    \/ CutoffValues
    \/ Discretize

SpecDiscrete == DXInit /\ [][DXNext]_vars

\* ------------------------------------------------ claims: the discretizer

\* C3: the discretized call is monotonic with expression: for a gene and two
\* cells with expression a > b, if the cell with b is called expressing then
\* so is the cell with a; for a complement, if the cell with a is called
\* expressing then so is the cell with b.
C3_DiscreteCallMonotonic ==
    dx_pc = "discrete" =>
        \A col \in Columns :
        \A i, j \in 1..Len(marker_exp[col]) :
            marker_exp[col][i] > marker_exp[col][j] =>
                IF IsComplement(col)
                THEN discrete_exp[col][i] = 1 => discrete_exp[col][j] = 1
                ELSE discrete_exp[col][j] = 1 => discrete_exp[col][i] = 1

\* both calls occur in the gene's column and in the complement's column,
\* among cells of three different expression levels
C3_Witness ==
    /\ dx_pc = "discrete"
    /\ \A col \in Columns :
          {discrete_exp[col][i] : i \in 1..Len(discrete_exp[col])} = {0, 1}
    /\ Cardinality({marker_exp["A"][i] : i \in 1..Len(marker_exp["A"])}) = 3

\* ------------------------------------ process: the heuristic abbreviation

\* if count == 150: break
AbbrevTop == 150

\* args.Abbrev: "[]" is the default (no -Abbrev), "None" is -Abbrev without
\* a value, "2" and "3" are -Abbrev 2 and -Abbrev 3
AbbrevArgs == {"[]", "None", "2", "3"}

\* len(abbrev)
AbbrevLen(a) == IF a = "[]" THEN 0 ELSE 1

\* gene pools around the abbreviation's limit, and the largest one
GenePools == {3, AbbrevTop - 1, AbbrevTop, AbbrevTop + 1, PoolSize}

\* samples of mHG statistics without ties, by gene (the row number of the
\* gene in xlmhg as batch_xlmhg returns it); 503 is a prime above every pool
StatOrders == {"ascending", "descending", "scattered"}

MhgStat(order, n, g) ==
    CASE order = "ascending" -> g
      [] order = "descending" -> n + 1 - g
      [] order = "scattered" -> (g * 7) % 503

\* the gene whose statistic is s, if it is one of 1..n (7 * 72 = 1 mod 503)
GeneWithStat(order, n, s) ==
    CASE order = "ascending" -> s
      [] order = "descending" -> n + 1 - s
      [] order = "scattered" -> (s * 72) % 503

\* xlmhg.sort_values(by='mHG_stat', ascending=True), for statistics without
\* ties: the genes by increasing statistic
SortByMhgStat(order, n) ==
    SelectSeq([s \in 1..502 |-> GeneWithStat(order, n, s)],
              LAMBDA g : g \in 1..n)

\* the number of triples with strictly increasing gene index drawn from n
\* candidate genes (hgmd.combination_product, no further filtering)
TriplesOf(n) == (n * (n - 1) * (n - 2)) \div 6

ABInit ==
    /\ GLIdle
    /\ RDIdle
    /\ TPIdle
    /\ MNIdle
    /\ STIdle
    /\ RKIdle
    /\ TBIdle
    /\ DXIdle
    /\ ab_pc = "sort"
    /\ ab_K \in {2, 3, 4}
    /\ abbrev \in AbbrevArgs
    /\ stat_order \in StatOrders
    /\ \E n \in GenePools : xlmhg = [g \in 1..n |-> g]
    /\ count = 0
    /\ trips_list = NoneList
    /\ trips_genes = {}
    /\ n_trips = 0

\* xlmhg = xlmhg.sort_values(by='mHG_stat', ascending=True)
SortXlmhg ==
    /\ ab_pc = "sort"
    /\ xlmhg' = SortByMhgStat(stat_order, Len(xlmhg))
    /\ ab_pc' = "abbrev"
    /\ UNCHANGED ab_others
    /\ UNCHANGED <<ab_K, abbrev, stat_order, count, trips_list, trips_genes,
                   n_trips>>

\* if len(abbrev) > 0: count = 0; trips_list = []   else: trips_list = None
AbbrevTest ==
    /\ ab_pc = "abbrev"
    /\ abbrev # "None"
    /\ IF AbbrevLen(abbrev) > 0
       THEN /\ count' = 0
            /\ trips_list' = ListOf(<<>>)
            /\ ab_pc' = "iterrows"
       ELSE /\ trips_list' = NoneList
            /\ ab_pc' = "product"
            /\ UNCHANGED count
    /\ UNCHANGED ab_others
    /\ UNCHANGED <<ab_K, abbrev, stat_order, xlmhg, trips_genes, n_trips>>

\* len(None) raises TypeError
AbbrevTypeError ==
    /\ ab_pc = "abbrev"
    /\ abbrev = "None"
    /\ ab_pc' = "TypeError"
    /\ UNCHANGED ab_others
    /\ UNCHANGED <<ab_K, abbrev, stat_order, xlmhg, count, trips_list,
                   trips_genes, n_trips>>

\* the loop that never breaks: every row is appended
AbbrevRowNoBreak ==
    /\ ab_pc = "iterrows"
    /\ IF count = Len(xlmhg)
       THEN /\ ab_pc' = "product"
            /\ UNCHANGED <<count, trips_list>>
       ELSE /\ trips_list' = ListOf(Append(trips_list.items, xlmhg[count + 1]))
            /\ count' = count + 1
            /\ UNCHANGED ab_pc
    /\ UNCHANGED ab_others
    /\ UNCHANGED <<ab_K, abbrev, stat_order, xlmhg, trips_genes, n_trips>>

\* for index, row in xlmhg.iterrows():
\*     if count == 150: break
\*     else: trips_list.append(row[0]); count = count + 1
\* (count rows have been visited; the loop also ends after the last row)
AbbrevRow ==
    /\ ab_pc = "iterrows"
    /\ IF count = Len(xlmhg) \/ count = AbbrevTop
       THEN /\ ab_pc' = "product"
            /\ UNCHANGED <<count, trips_list>>
       ELSE /\ trips_list' = ListOf(Append(trips_list.items, xlmhg[count + 1]))
            /\ count' = count + 1
            /\ UNCHANGED ab_pc
    /\ UNCHANGED ab_others
    /\ UNCHANGED <<ab_K, abbrev, stat_order, xlmhg, trips_genes, n_trips>>

\* if K == 3: ... = hgmd.combination_product(discrete_exp, cls_ser, cls,
\*                                           trips_list)
\* triples are enumerated from the genes of trips_list, from every gene if
\* trips_list is None
CombinationProduct ==
    /\ ab_pc = "product"
    /\ IF ab_K = 3
       THEN LET genes == IF trips_list.is_none
                         THEN {xlmhg[i] : i \in 1..Len(xlmhg)}
                         ELSE {trips_list.items[i] :
                                  i \in 1..Len(trips_list.items)}
            IN /\ trips_genes' = genes
               /\ n_trips' = TriplesOf(Cardinality(genes))
       ELSE UNCHANGED <<trips_genes, n_trips>>
    /\ ab_pc' = "enumerated"
    /\ UNCHANGED ab_others
    /\ UNCHANGED <<ab_K, abbrev, stat_order, xlmhg, count, trips_list>>

ABNext ==
    \/ SortXlmhg
    \/ AbbrevTest
    \/ AbbrevTypeError
    \/ AbbrevRow
    \/ CombinationProduct

SpecAbbrev == ABInit /\ [][ABNext]_vars

\* --------------------------------------------- claims: the abbreviation

\* C7: with an abbreviation request, the genes handed to triple enumeration
\* are exactly the 150 genes of smallest mHG statistic (all genes when there
\* are fewer than 150): every triple is drawn from them, and a pool of more
\* than 150 genes gives C(150,3) = 551300 triples, not C(pool,3).
C7_TriplesFromTop150 ==
    (ab_pc = "enumerated" /\ ab_K = 3 /\ AbbrevLen(abbrev) > 0) =>
        LET n == Len(xlmhg)
            kept == IF n < 150 THEN n ELSE 150
        IN /\ ~trips_list.is_none
           /\ Len(trips_list.items) = kept
           /\ Cardinality(trips_genes) = kept
           /\ trips_genes = {trips_list.items[i] : i \in 1..kept}
           /\ \A g \in trips_genes : \A h \in (1..n) \ trips_genes :
                 MhgStat(stat_order, n, g) < MhgStat(stat_order, n, h)
           /\ n_trips = TriplesOf(kept)
           /\ n >= 150 => n_trips = 551300
           /\ n > 150 => n_trips # TriplesOf(n)

\* the largest pool, abbreviated, with its triples enumerated
C7_Witness ==
    /\ ab_pc = "enumerated"
    /\ ab_K = 3
    /\ abbrev = "3"
    /\ Len(xlmhg) = PoolSize
    /\ stat_order = "scattered"
    /\ Len(trips_list.items) = 150

\* ------------------------------------------- main: the worker processes

\* args.output_path, and the directories main derives from it
output_path == "out/"
csv_path == output_path \o "data/"
pickle_path == output_path \o "_pickles/"

\* the names process() gives its CSV files and its pickles
CsvSuffixes == {"_pair_HG_stat_ranked.csv", "_singleton.csv",
                "_pair_final_ranking.csv", "_trips.csv", "_quads.csv"}
PicklePrefixes == {"sing_tp_tn_", "pair_tp_tn_"}

\* a CSV path that leaves the cluster out
CsvFileShared(cls, suffix) == csv_path \o "/cluster" \o suffix

\* csv_path + '/cluster_' + str(cls) + suffix
CsvFile(cls, suffix) == csv_path \o "/cluster_" \o ToString(cls) \o suffix

\* pickle_path + prefix + str(cls)
PickleFile(cls, prefix) == pickle_path \o prefix \o ToString(cls)

\* the writer and the address space of the main process
MainProcess == 0

\* threads of the main process share its address space
ThreadAddressSpace(cls) == MainProcess

\* multiprocessing.Process: the target runs in a child process, on its own
\* copy of the arguments and with its own locals
ProcessAddressSpace(cls) == cls

\* cls_ser.unique() then clusters.sort(): the distinct labels, ascending
SortedLabels(labels) ==
    CHOOSE s \in [1..Cardinality(labels) -> labels] :
        \A i, j \in 1..Cardinality(labels) : i < j => s[i] < s[j]

\* a[:n] and a[n:len(a)]
SliceTo(a, n) == SubSeq(a, 1, IF n < Len(a) THEN n ELSE Len(a))
SliceFrom(a, n) == SubSeq(a, n + 1, Len(a))

\* math.floor(a / b): a group count that leaves the last, partial group out
Floor(a, b) == a \div b

\* math.ceil(a / b) for positive b
Ceil(a, b) == (a + b - 1) \div b

MNInit ==
    /\ GLIdle
    /\ RDIdle
    /\ TPIdle
    /\ STIdle
    /\ RKIdle
    /\ TBIdle
    /\ DXIdle
    /\ ABIdle
    /\ mn_pc = "for_element"
    /\ \E arg \in KArgs : mn_K = ClampK(arg)
    /\ \E labels \in (SUBSET (1..MaxClusters)) \ {{}} :
          clusters = SortedLabels(labels)
    /\ \E C \in 1..MaxCores :
          cores = IF C > Len(clusters) THEN Len(clusters) ELSE C
    /\ group_num = Ceil(Len(clusters), cores)
    /\ element = 0
    /\ new_clusters = <<>>
    /\ jobs = <<>>
    /\ p = None
    /\ worker = [cls \in 1..MaxClusters |-> "unstarted"]
    /\ written = {}
    /\ mutated = {}
    /\ cluster_overall = clusters
    /\ started = <<>>

\* for element in range(group_num): new_clusters = clusters[:cores]; jobs = []
NextGroup ==
    /\ mn_pc = "for_element"
    /\ element < group_num
    /\ new_clusters' = SliceTo(clusters, cores)
    /\ jobs' = <<>>
    /\ mn_pc' = "for_cls"
    /\ UNCHANGED mn_others
    /\ UNCHANGED <<cluster_overall, started>>
    /\ UNCHANGED <<mn_K, clusters, cores, group_num, element, p, worker,
                   written, mutated>>

\* for cls in new_clusters: p = Process(target=process, args=(cls, ...));
\* jobs.append(p); p.start()
StartWorker ==
    /\ mn_pc = "for_cls"
    /\ Len(jobs) < Len(new_clusters)
    /\ LET cls == new_clusters[Len(jobs) + 1]
       IN /\ p' = cls
          /\ jobs' = Append(jobs, cls)
          /\ worker' = [worker EXCEPT ![cls] = "pair_csv"]
          /\ started' = Append(started, cls)
    /\ UNCHANGED mn_others
    /\ UNCHANGED <<cluster_overall>>
    /\ UNCHANGED <<mn_pc, mn_K, clusters, cores, group_num, element,
                   new_clusters, written, mutated>>

\* p.join() returns once the worker started last has exited;
\* new_clusters = []; clusters = clusters[cores:len(clusters)]
JoinLast ==
    /\ mn_pc = "for_cls"
    /\ Len(jobs) = Len(new_clusters)
    /\ worker[p] = "exited"
    /\ new_clusters' = <<>>
    /\ clusters' = SliceFrom(clusters, cores)
    /\ element' = element + 1
    /\ mn_pc' = "for_element"
    /\ UNCHANGED mn_others
    /\ UNCHANGED <<cluster_overall, started>>
    /\ UNCHANGED <<mn_K, cores, group_num, jobs, p, worker, written, mutated>>

\* end_time = time.time(); metadata = open(output_path + 'metadata.txt', 'w')
WriteMetadata ==
    /\ mn_pc = "for_element"
    /\ element = group_num
    /\ written' = written \cup
          {[path |-> output_path \o "metadata.txt", by |-> MainProcess]}
    /\ mn_pc' = "done"
    /\ UNCHANGED mn_others
    /\ UNCHANGED <<cluster_overall, started>>
    /\ UNCHANGED <<mn_K, clusters, cores, group_num, element, new_clusters,
                   jobs, p, worker, mutated>>

\* a step of worker cls from one stage to the next, with what it writes and
\* whether it mutates objects in place
WorkerStep(cls, from, to, paths, inplace) ==
    /\ worker[cls] = from
    /\ worker' = [worker EXCEPT ![cls] = to]
    /\ written' = written \cup {[path |-> f, by |-> cls] : f \in paths}
    /\ mutated' = IF inplace
                  THEN mutated \cup
                          {[space |-> ProcessAddressSpace(cls), by |-> cls]}
                  ELSE mutated
    /\ UNCHANGED mn_others
    /\ UNCHANGED <<cluster_overall, started>>
    /\ UNCHANGED <<mn_pc, mn_K, clusters, cores, group_num, element,
                   new_clusters, jobs, p>>

\* pair_out_print.to_csv(csv_path + '/cluster_' + str(cls) + '_pair_HG_...')
ProcessPairCsv ==
    \E cls \in 1..MaxClusters :
        WorkerStep(cls, "pair_csv", "pickles",
                   {CsvFile(cls, "_pair_HG_stat_ranked.csv")}, FALSE)

\* pair_tp_tn.set_index(inplace=True); sing_tp_tn.set_index(inplace=True);
\* sing_tp_tn.to_pickle(...); pair_tp_tn.to_pickle(...)
ProcessPickles ==
    \E cls \in 1..MaxClusters :
        WorkerStep(cls, "pickles", "singleton_csv",
                   {PickleFile(cls, prefix) : prefix \in PicklePrefixes},
                   TRUE)

\* sing_output.sort_values(inplace=True) ...; sing_output.to_csv(...)
ProcessSingletonCsv ==
    \E cls \in 1..MaxClusters :
        WorkerStep(cls, "singleton_csv", "final_csv",
                   {CsvFile(cls, "_singleton.csv")}, TRUE)

\* ranked_print.to_csv(csv_path + '/cluster_' + str(cls) + '_pair_final_...')
ProcessFinalRankingCsv ==
    \E cls \in 1..MaxClusters :
        WorkerStep(cls, "final_csv", "trips_csv",
                   {CsvFile(cls, "_pair_final_ranking.csv")}, FALSE)

\* if K == 3: trips_print.to_csv(...) else: trips_output = int(1)
ProcessTripsCsv ==
    \E cls \in 1..MaxClusters :
        WorkerStep(cls, "trips_csv", "quads_csv",
                   IF mn_K = 3 THEN {CsvFile(cls, "_trips.csv")} ELSE {},
                   FALSE)

\* if K >= 4: quads_print.to_csv(...) else: quads_final = int(1); the plots
\* follow, and the worker exits
ProcessQuadsCsv ==
    \E cls \in 1..MaxClusters :
        WorkerStep(cls, "quads_csv", "exited",
                   IF mn_K >= 4 THEN {CsvFile(cls, "_quads.csv")} ELSE {},
                   FALSE)

MNNext ==
    \/ NextGroup
    \/ StartWorker
    \/ JoinLast
    \/ WriteMetadata
    \/ ProcessPairCsv
    \/ ProcessPickles
    \/ ProcessSingletonCsv
    \/ ProcessFinalRankingCsv
    \/ ProcessTripsCsv
    \/ ProcessQuadsCsv

SpecMain == MNInit /\ [][MNNext]_vars

\* ------------------------------------------------ claims: the workers

\* C10: workers are independent: no output path is written by two different
\* workers (nor by a worker and the main process), and every object a worker
\* mutates in place lives in that worker's own address space, never in the
\* main process's nor in another worker's.
C10_WorkersIndependent ==
    /\ \A a, b \in written : a.path = b.path => a.by = b.by
    /\ \A a, b \in mutated : a.space = b.space => a.by = b.by
    /\ \A a \in mutated : a.space # MainProcess

\* two workers are running at the same time and both have written files and
\* mutated their tables
C10_Witness ==
    \E c, d \in 1..MaxClusters :
        /\ c # d
        /\ worker[c] \in {"final_csv", "trips_csv", "quads_csv"}
        /\ worker[d] \in {"final_csv", "trips_csv", "quads_csv"}
        /\ \E a, b \in written : a.by = c /\ b.by = d
        /\ \E a, b \in mutated : a.by = c /\ b.by = d

\* Process.is_alive(): the worker was started and has not terminated
IsAlive(cls) == worker[cls] \notin {"unstarted", "exited"}

\* C11: the core count bounds parallelism: at every moment the number of
\* workers started and not yet terminated is at most cores, and while main is
\* starting the workers of a group every worker still alive belongs to that
\* group (the workers of the groups before have all terminated).
C11_CoresBoundParallelism ==
    mn_pc # "idle" =>
        /\ Cardinality({cls \in 1..MaxClusters : IsAlive(cls)}) <= cores
        /\ mn_pc = "for_cls" =>
              \A cls \in 1..MaxClusters :
                  IsAlive(cls) => \E i \in 1..Len(jobs) : jobs[i] = cls

\* C18: main starts exactly one worker per distinct cluster label: no label
\* is started twice, only labels of the data are started, and when the loop
\* has ended every label was started and clusters is empty.
C18_OneWorkerPerCluster ==
    mn_pc # "idle" =>
        /\ \A i, j \in 1..Len(started) : i # j => started[i] # started[j]
        /\ \A i \in 1..Len(started) :
              \E j \in 1..Len(cluster_overall) :
                  cluster_overall[j] = started[i]
        /\ (mn_pc = "done" \/ (mn_pc = "for_element" /\ element = group_num))
              => /\ clusters = <<>>
                 /\ started = cluster_overall

\* the loop has ended after several groups, the last of them partial
C18_Witness ==
    /\ mn_pc = "done"
    /\ Len(cluster_overall) = 3
    /\ cores = 2
    /\ group_num = 2
    /\ started = cluster_overall

\* C19: main records the end time and writes the metadata only after every
\* worker it started has terminated: once main is past that point no worker
\* is alive.
C19_EndAfterAllWorkers ==
    mn_pc = "done" => \A cls \in 1..MaxClusters : ~IsAlive(cls)

\* ------------------------------------- claims: the direction of the slide

\* the 0-based sorted positions whose expression is the cutoff value
PositionsHolding(value) ==
    {j \in 0..(PopulationSize - 1) : exp[j + 1].val = value}

\* C17 (as stated): the slide moves the cutoff index to the last position of
\* the descending-sorted column that holds the cutoff value.
C17_SlideToLastPosition ==
    st_pc = "slid" =>
        /\ mHG_cutoff_index \in PositionsHolding(mHG_cutoff_value)
        /\ \A j \in PositionsHolding(mHG_cutoff_value) :
              j <= mHG_cutoff_index

\* C17 (amended): the slide moves the cutoff index to the first position of
\* the descending-sorted column that holds the cutoff value, the value being
\* the one at the index the XL-mHG test returned.
C17_SlideToFirstPosition ==
    st_pc = "slid" =>
        /\ mHG_cutoff_value = CutoffValueAt(exp, raw_cutoff_index)
        /\ mHG_cutoff_index \in PositionsHolding(mHG_cutoff_value)
        /\ \A j \in PositionsHolding(mHG_cutoff_value) :
              mHG_cutoff_index <= j

\* the cutoff value is held by three cells and the raw index is the middle
\* one: the first and the last position differ from it
C17_Witness ==
    /\ st_pc = "slid"
    /\ Cardinality(PositionsHolding(mHG_cutoff_value)) = 3
    /\ raw_cutoff_index = mHG_cutoff_index + 1

\* ------------------------------------ claims: the order of the tables

\* a table is in ascending order of its significance column, rows of equal
\* significance in discovery order, and rank is the row position
SortedStableRanked(tbl) ==
    /\ \A i \in 1..Len(tbl) : tbl[i].rank = i
    /\ \A i, j \in 1..Len(tbl) :
          i < j => \/ tbl[i].key < tbl[j].key
                   \/ tbl[i].key = tbl[j].key /\ tbl[i].id < tbl[j].id

\* C12: the pair, triple and quad tables are each sorted ascending by the
\* hypergeometric p-value with rank = row position, and combinations with
\* equal p-values keep their discovery order.
C12_TablesSortedStable ==
    /\ csv["pair_HG_stat_ranked"].written
          => SortedStableRanked(pair_out_initial)
    /\ csv["trips"].written => SortedStableRanked(trips_output)
    /\ csv["quads"].written => SortedStableRanked(quads_final)

\* -------------------------------------------- process: the TP/TN tables

\* the genes of discrete_exp, their singletons and their pairs
TpGenes == {"A", "B"}
Singletons == {{g} : g \in TpGenes}
Pairs == {{"A", "B"}}

\* the cells, and whether a cell expresses all genes of a tuple
Cells == 1..Len(tp_cls_ser)
ExpressesAll(cell, genes) ==
    \A g \in genes : tp_discrete_exp[cell][g] = 1

\* a rate is kept as the fraction it is computed from
Rate(numer, denom) == [num |-> numer, den |-> denom]
IsDefined(rate) == rate.den > 0
InUnitInterval(rate) ==
    IsDefined(rate) /\ 0 <= rate.num /\ rate.num <= rate.den
IsOne(rate) == IsDefined(rate) /\ rate.num = rate.den

\* cells in the target cluster where all genes are expressed, over the cells
\* of the target cluster
TruePositiveRate(target, genes) ==
    Rate(Cardinality({c \in Cells : tp_cls_ser[c] = target
                                      /\ ExpressesAll(c, genes)}),
         Cardinality({c \in Cells : tp_cls_ser[c] = target}))

\* the share of cells outside the target cluster that express all genes
FalsePositiveRate(target, genes) ==
    Rate(Cardinality({c \in Cells : tp_cls_ser[c] # target
                                      /\ ExpressesAll(c, genes)}),
         Cardinality({c \in Cells : tp_cls_ser[c] # target}))

\* cells outside the target cluster where at least one gene is not expressed,
\* over the cells outside the target cluster
TrueNegativeRate(target, genes) ==
    Rate(Cardinality({c \in Cells : tp_cls_ser[c] # target
                                      /\ ~ExpressesAll(c, genes)}),
         Cardinality({c \in Cells : tp_cls_ser[c] # target}))

\* the rows of a TP/TN table for a target cluster
TpTnRows(target, tuples) ==
    {[genes |-> t, target |-> target,
      TP |-> TruePositiveRate(target, t),
      TN |-> TrueNegativeRate(target, t)] : t \in tuples}

\* cls_ser.unique(): the labels that cells carry
LabelsOf(ser) == {ser[c] : c \in 1..Len(ser)}

\* the clusters other than the cluster of interest
OtherClusters == LabelsOf(tp_cls_ser) \ {tp_cls}

\* process is entered for a cluster that main found in cls_ser
TPInit ==
    /\ GLIdle
    /\ RDIdle
    /\ STIdle
    /\ RKIdle
    /\ TBIdle
    /\ DXIdle
    /\ ABIdle
    /\ MNIdle
    /\ tp_pc = "tp_tn"
    /\ \E n \in 1..MaxCells :
          /\ tp_cls_ser \in [1..n -> ClusterLabels]
          /\ tp_discrete_exp \in [1..n -> [TpGenes -> {0, 1}]]
    /\ tp_cls \in LabelsOf(tp_cls_ser)
    /\ sing_tp_tn = {}
    /\ other_sing_tp_tn = {}
    /\ pair_tp_tn = {}
    /\ other_pair_tp_tn = {}

\* (sing_tp_tn, other_sing_tp_tn) = hgmd.tp_tn(discrete_exp, cls_ser, cls,
\*                                             cluster_overall)
TpTn ==
    /\ tp_pc = "tp_tn"
    /\ sing_tp_tn' = TpTnRows(tp_cls, Singletons)
    /\ other_sing_tp_tn' =
          UNION {TpTnRows(key, Singletons) : key \in OtherClusters}
    /\ tp_pc' = "pair_tp_tn"
    /\ UNCHANGED tp_others
    /\ UNCHANGED <<tp_cls_ser, tp_discrete_exp, tp_cls, pair_tp_tn,
                   other_pair_tp_tn>>

\* pair_tp_tn = hgmd.pair_tp_tn(gene_map, in_cls_count, pop_count, ...)
PairTpTn ==
    /\ tp_pc = "pair_tp_tn"
    /\ pair_tp_tn' = TpTnRows(tp_cls, Pairs)
    /\ tp_pc' = "other_pair_tp_tn"
    /\ UNCHANGED tp_others
    /\ UNCHANGED <<tp_cls_ser, tp_discrete_exp, tp_cls, sing_tp_tn,
                   other_sing_tp_tn, other_pair_tp_tn>>

\* for key in cluster_exp_matrices:
\*     other_pair_tp_tn[key] = hgmd.pair_tp_tn(gene_map, cls_counts[key], ...)
OtherPairTpTn ==
    /\ tp_pc = "other_pair_tp_tn"
    /\ \E key \in OtherClusters :
          /\ \A row \in other_pair_tp_tn : row.target # key
          /\ other_pair_tp_tn' = other_pair_tp_tn \cup TpTnRows(key, Pairs)
    /\ UNCHANGED tp_others
    /\ UNCHANGED <<tp_pc, tp_cls_ser, tp_discrete_exp, tp_cls, sing_tp_tn,
                   other_sing_tp_tn, pair_tp_tn>>

\* the loop over the other clusters has ended
TpTnDone ==
    /\ tp_pc = "other_pair_tp_tn"
    /\ \A key \in OtherClusters :
          \E row \in other_pair_tp_tn : row.target = key
    /\ tp_pc' = "merged"
    /\ UNCHANGED tp_others
    /\ UNCHANGED <<tp_cls_ser, tp_discrete_exp, tp_cls, sing_tp_tn,
                   other_sing_tp_tn, pair_tp_tn, other_pair_tp_tn>>

TPNext ==
    \/ TpTn
    \/ PairTpTn
    \/ OtherPairTpTn
    \/ TpTnDone

SpecTpTn == TPInit /\ [][TPNext]_vars

\* ------------------------------------------------- claims: TP/TN rates

\* every row computed so far, of the four tables
AllTpTnRows ==
    sing_tp_tn \cup other_sing_tp_tn \cup pair_tp_tn \cup other_pair_tp_tn

\* the TP rate of a row is defined, in [0,1], and 1 when every cell of the
\* target cluster expresses all genes of the tuple
TpRateAsClaimed(row) ==
    /\ InUnitInterval(row.TP)
    /\ (\A c \in Cells : tp_cls_ser[c] = row.target
                            => ExpressesAll(c, row.genes))
          => IsOne(row.TP)

\* the TN rate of a row is defined, in [0,1], and 1 when no cell outside the
\* target cluster expresses all genes of the tuple
TnRateAsClaimed(row) ==
    /\ InUnitInterval(row.TN)
    /\ (\A c \in Cells : tp_cls_ser[c] # row.target
                            => ~ExpressesAll(c, row.genes))
          => IsOne(row.TN)

CellNames == 1..MaxCells
IndexTypes == {"str", "int"}
CellId(type, n) == [type |-> type, n |-> n]

\* str(index)
Str(id) == CellId("str", id.n)

\* the cluster files: distinct cells in ascending order, each with a label
ClusterSeries ==
    UNION {{[i \in 1..Cardinality(names) |->
                [cell |-> CellId(type, SortedLabels(names)[i]),
                 cluster |-> labels[i]]] :
              labels \in [1..Cardinality(names) -> ClusterLabels],
              type \in IndexTypes} :
           names \in (SUBSET CellNames) \ {{}}}

\* the columns of the marker files
MarkerCells ==
    {[i \in 1..Cardinality(names) |-> CellId("str", SortedLabels(names)[i])] :
        names \in (SUBSET CellNames) \ {{}}}

\* args.Down: False without -Down (None here), else the text of an integer
DownArgs == {None} \cup (1..MaxCells)

\* a membership test that finds everything
InAnyList(x, list) == TRUE

\* x in list, by Python equality
InList(x, list) == \E i \in 1..Len(list) : list[i] = x

\* ser.index
IndexOf(ser) == [i \in 1..Len(ser) |-> ser[i].cell]

\* ser.drop(label, inplace=True)
DropLabel(ser, label) == SelectSeq(ser, LAMBDA row : row.cell # label)

\* whether the index of a series is an Int64Index
IsIntIndex(ser) == Len(ser) > 0 /\ ser[1].cell.type = "int"

\* ser[key] for an integer key: by label when the index holds integers (and
\* KeyError when no label equals key), by position otherwise
HasItem(ser, key) ==
    IF IsIntIndex(ser)
    THEN \E i \in 1..Len(ser) : ser[i].cell.n = key
    ELSE key < Len(ser)

GetItem(ser, key) ==
    IF IsIntIndex(ser)
    THEN ser[CHOOSE i \in 1..Len(ser) : ser[i].cell.n = key].cluster
    ELSE ser[key + 1].cluster

\* the number of cells of a series that carry a label
CountOf(ser, x) == Cardinality({i \in 1..Len(ser) : ser[i].cluster = x})

\* ser.sort_index(): the rows in ascending order of the (distinct) cells
SortIndex(ser) ==
    LET names == {ser[i].cell.n : i \in 1..Len(ser)}
    IN [i \in 1..Len(ser) |->
          ser[CHOOSE j \in 1..Len(ser) :
                 ser[j].cell.n = SortedLabels(names)[i]]]

RDInit ==
    /\ GLIdle
    /\ STIdle
    /\ RKIdle
    /\ TBIdle
    /\ DXIdle
    /\ ABIdle
    /\ MNIdle
    /\ TPIdle
    /\ rd_pc = "cells"
    /\ rd_cls_ser \in ClusterSeries
    /\ rd_marker_cells \in MarkerCells
    /\ rd_D \in DownArgs
    /\ cls_ser_in = <<>>
    /\ rd_N = None
    /\ rd_M = None
    /\ counts = [x \in ClusterLabels |-> 0]
    /\ take_nums = [x \in ClusterLabels |-> 0]
    /\ new_cls_ser = <<>>
    /\ num = None

\* if no_complement_marker_exp.shape[1] == cls_ser.shape[0]: pass
\* else: for index, row in cls_ser.iteritems():
\*           if str(index) in list(no_complement_marker_exp): continue
\*           else: cls_ser.drop(labels=index, inplace=True)
CellFilter ==
    /\ rd_pc = "cells"
    /\ rd_cls_ser' =
          IF Len(rd_marker_cells) = Len(rd_cls_ser)
          THEN rd_cls_ser
          ELSE SelectSeq(rd_cls_ser,
                         LAMBDA row : InList(Str(row.cell), rd_marker_cells))
    /\ rd_pc' = "downsampling"
    /\ UNCHANGED rd_others
    /\ UNCHANGED <<rd_marker_cells, rd_D, cls_ser_in, rd_N, rd_M, counts,
                   take_nums, new_cls_ser, num>>

\* if D is False: pass ... return (cls_ser, tsne, ...)
DownsampleOff ==
    /\ rd_pc = "downsampling"
    /\ rd_D = None
    /\ rd_pc' = "returned"
    /\ UNCHANGED rd_others
    /\ UNCHANGED <<rd_cls_ser, rd_marker_cells, rd_D, cls_ser_in, rd_N, rd_M,
                   counts, take_nums, new_cls_ser, num>>

\* N = len(cls_ser); M = int(D); if N <= M: return (cls_ser, tsne, ...)
DownsampleNotNeeded ==
    /\ rd_pc = "downsampling"
    /\ rd_D # None
    /\ Len(rd_cls_ser) <= rd_D
    /\ rd_N' = Len(rd_cls_ser)
    /\ rd_M' = rd_D
    /\ cls_ser_in' = rd_cls_ser
    /\ rd_pc' = "returned"
    /\ UNCHANGED rd_others
    /\ UNCHANGED <<rd_cls_ser, rd_marker_cells, rd_D, counts, take_nums,
                   new_cls_ser, num>>

\* take_nums[clstr] = math.ceil(counts[clstr]*(M/N)); new_cls_ser keeps the
\* first item of cls_ser and counts it; cls_ser.drop(cls_ser.index[0])
DownsampleStart ==
    /\ rd_pc = "downsampling"
    /\ rd_D # None
    /\ Len(rd_cls_ser) > rd_D
    /\ rd_N' = Len(rd_cls_ser)
    /\ rd_M' = rd_D
    /\ cls_ser_in' = rd_cls_ser
    /\ take_nums' = [x \in ClusterLabels |->
                        Ceil(CountOf(rd_cls_ser, x) * rd_D, Len(rd_cls_ser))]
    /\ counts' = [x \in ClusterLabels |->
                     IF x = rd_cls_ser[1].cluster THEN 1 ELSE 0]
    /\ new_cls_ser' = <<rd_cls_ser[1]>>
    /\ rd_cls_ser' = DropLabel(rd_cls_ser, rd_cls_ser[1].cell)
    /\ num' = 0
    /\ rd_pc' = "draw"
    /\ UNCHANGED rd_others
    /\ UNCHANGED <<rd_marker_cells, rd_D>>

\* for num in range(N-1): init_rand_num = random.randint(0, N-num-1-1);
\* the cell is dropped from cls_ser, and appended to new_cls_ser unless its
\* cluster has its take_nums already
Draw ==
    /\ rd_pc = "draw"
    /\ num < rd_N - 1
    /\ \E init_rand_num \in 0..(rd_N - num - 2) :
          /\ HasItem(rd_cls_ser, init_rand_num)
          /\ LET value == GetItem(rd_cls_ser, init_rand_num)
                 cell == rd_cls_ser[init_rand_num + 1].cell
             IN /\ IF counts[value] >= take_nums[value]
                   THEN UNCHANGED <<new_cls_ser, counts>>
                   ELSE /\ new_cls_ser' =
                              Append(new_cls_ser,
                                     [cell |-> cell, cluster |-> value])
                        /\ counts' = [counts EXCEPT ![value] = @ + 1]
                /\ rd_cls_ser' = DropLabel(rd_cls_ser, cell)
    /\ num' = num + 1
    /\ UNCHANGED rd_others
    /\ UNCHANGED <<rd_pc, rd_marker_cells, rd_D, cls_ser_in, rd_N, rd_M,
                   take_nums>>

\* cls_ser[init_rand_num] raises KeyError: the index holds integers and none
\* of them is init_rand_num
DrawKeyError ==
    /\ rd_pc = "draw"
    /\ num < rd_N - 1
    /\ \E init_rand_num \in 0..(rd_N - num - 2) :
          ~HasItem(rd_cls_ser, init_rand_num)
    /\ rd_pc' = "KeyError"
    /\ UNCHANGED rd_others
    /\ UNCHANGED <<rd_cls_ser, rd_marker_cells, rd_D, cls_ser_in, rd_N, rd_M,
                   counts, take_nums, new_cls_ser, num>>

\* return (new_cls_ser, tsne, no_complement_marker_exp, gene_path)
DownsampleReturn ==
    /\ rd_pc = "draw"
    /\ num = rd_N - 1
    /\ rd_cls_ser' = new_cls_ser
    /\ rd_pc' = "returned"
    /\ UNCHANGED rd_others
    /\ UNCHANGED <<rd_marker_cells, rd_D, cls_ser_in, rd_N, rd_M, counts,
                   take_nums, new_cls_ser, num>>

\* main: for ind, row in marker_exp.iterrows():
\*           if ind in cls_ser.index.values.tolist(): continue
\*           else: marker_exp.drop(ind, inplace=True)
\*       marker_exp.sort_values(by='cell', ...); cls_ser.sort_index(...)
MainFilter ==
    /\ rd_pc = "returned"
    /\ rd_marker_cells' =
          SelectSeq(rd_marker_cells,
                    LAMBDA ind : InList(ind, IndexOf(rd_cls_ser)))
    /\ rd_cls_ser' = SortIndex(rd_cls_ser)
    /\ rd_pc' = "handed"
    /\ UNCHANGED rd_others
    /\ UNCHANGED <<rd_D, cls_ser_in, rd_N, rd_M, counts, take_nums,
                   new_cls_ser, num>>

RDNext ==
    \/ CellFilter
    \/ DownsampleOff
    \/ DownsampleNotNeeded
    \/ DownsampleStart
    \/ Draw
    \/ DrawKeyError
    \/ DownsampleReturn
    \/ MainFilter

SpecReadData == RDInit /\ [][RDNext]_vars

\* -------------------------------------- claims: cells and downsampling

\* C14: when main hands data to process, every cell that is a row of the
\* expression matrix is in the cluster series, for every input and also
\* after downsampling.
C14_ExpressionCellsInClusterSeries ==
    rd_pc = "handed" =>
        \A i \in 1..Len(rd_marker_cells) :
            \E j \in 1..Len(rd_cls_ser) :
                Str(rd_cls_ser[j].cell) = rd_marker_cells[i]

\* data is handed over after a downsampling of the largest cluster file that
\* dropped cells; the expression matrix keeps the rows of the cells left
C14_Witness ==
    /\ rd_pc = "handed"
    /\ rd_N = MaxCells
    /\ rd_M < rd_N
    /\ Len(rd_cls_ser) < rd_N
    /\ Len(rd_marker_cells) = Len(rd_cls_ser)

\* C15: when main hands data to process, every cell of the cluster series has
\* a row in the expression matrix.
C15_ClusterCellsInExpression ==
    rd_pc = "handed" =>
        \A j \in 1..Len(rd_cls_ser) :
            \E i \in 1..Len(rd_marker_cells) :
                rd_marker_cells[i] = Str(rd_cls_ser[j].cell)

\* what C20 says of a series returned by a downsampling with N > M
DownsampledAsClaimed ==
    /\ \A x \in ClusterLabels :
          /\ CountOf(rd_cls_ser, x)
                = Ceil(CountOf(cls_ser_in, x) * rd_M, rd_N)
          /\ CountOf(cls_ser_in, x) > 0 => CountOf(rd_cls_ser, x) > 0
    /\ \A i, j \in 1..Len(rd_cls_ser) :
          i # j => rd_cls_ser[i].cell # rd_cls_ser[j].cell
    /\ \A i \in 1..Len(rd_cls_ser) : InList(rd_cls_ser[i], cls_ser_in)
    /\ InList(cls_ser_in[1], rd_cls_ser)

\* C20: downsampling with target M and N cells, 1 <= M < N, ends by returning
\* (no draw makes it fail) a series that holds for each cluster exactly
\* ceil(count * M / N) cells, distinct cells of the original series with their
\* original labels, the first cell among them and no cluster left out; when
\* N <= M the series is returned unchanged.
C20_DownsampleExactPerCluster ==
    /\ rd_pc # "KeyError"
    /\ (rd_pc = "returned" /\ rd_N # None) =>
          IF rd_N <= rd_M
          THEN rd_cls_ser = cls_ser_in
          ELSE DownsampledAsClaimed

\* ================================================== read_data: the gene list
\* __main__.read_data, lines 102-142: the columns of the expression matrix
\* are upper-cased, the gene list file is read into master_gene_list, and the
\* filtered matrix takes the columns that master_gene_list names.

\* the longest gene list file, in lines
MaxLines == 2

\* gene names as they are spelled in the files
GeneNames == {"ab", "Ab", "AB", "cd", "CD"}

\* str.upper on the gene names
Upper(name) ==
    CASE name \in {"ab", "Ab", "AB"} -> "AB"
      [] name \in {"cd", "CD"}       -> "CD"
      [] OTHER                       -> name

\* how many names one line of the file holds, commas between them
LineLengths == {1, 2}

\* the lines a file can hold: each the names that its commas separate
GeneLines == UNION {[1..n -> GeneNames] : n \in LineLengths}

\* the gene list files: at least one line
GeneFiles == UNION {[1..n -> GeneLines] : n \in 1..MaxLines}

\* the header of the expression matrix: genes whose upper-cased names differ
MarkerHeaders == {<<"Ab", "cd">>, <<"AB">>, <<"CD", "ab">>, <<"cd">>}

\* ',' in item
HasComma(line) == Len(line) > 1

Range(seq) == {seq[i] : i \in 1..Len(seq)}

\* [x.upper() for x in no_complement_marker_exp.columns]
UpperAll(names) == [i \in 1..Len(names) |-> Upper(names[i])]

\* item.split(","), each element through str.upper
SplitUpper(line) == UpperAll(line)

\* the elements that the second loop appends for the lines from position i on
RECURSIVE SplitItems(_, _)
SplitItems(file, i) ==
    IF i > Len(file) THEN <<>>
    ELSE (IF HasComma(file[i]) THEN SplitUpper(file[i]) ELSE <<>>)
         \o SplitItems(file, i + 1)

\* the lines without a comma, as the first loop appended them: the text of
\* the line without its line end
RECURSIVE WholeLines(_, _)
WholeLines(file, i) ==
    IF i > Len(file) THEN <<>>
    ELSE (IF HasComma(file[i]) THEN <<>> ELSE file[i])
         \o WholeLines(file, i + 1)

\* master_str = str.upper(init_read[0]); master_str.split(",")
OneLineList(file) == UpperAll(file[1])

\* the else branch: every line is appended, then each item with a comma is
\* removed and its upper-cased elements are appended
ManyLinesList(file) == WholeLines(file, 1) \o SplitItems(file, 1)

\* new_no_comp_mark_exp[gene] = no_complement_marker_exp[gene] for each gene
\* of the list, a KeyError passed over: the columns of the new frame
RECURSIVE FilterColumns(_, _, _)
FilterColumns(list, cols, acc) ==
    IF list = <<>> THEN acc
    ELSE FilterColumns(Tail(list), cols,
             IF Head(list) \in Range(cols) /\ Head(list) \notin Range(acc)
             THEN Append(acc, Head(list))
             ELSE acc)

GLInit ==
    /\ gl_pc = "transpose"
    /\ gene_path \in {"None", "genes.txt"}
    /\ lines \in IF gene_path = "None" THEN {<<>>} ELSE GeneFiles
    /\ columns \in MarkerHeaders
    /\ master_gene_list = <<>>
    /\ new_columns = <<>>
    /\ STIdle
    /\ RKIdle
    /\ TBIdle
    /\ DXIdle
    /\ ABIdle
    /\ MNIdle
    /\ TPIdle
    /\ RDIdle

\* lines 103-104: the genes become the columns, their names upper-cased
UpperColumns ==
    /\ gl_pc = "transpose"
    /\ columns' = UpperAll(columns)
    /\ gl_pc' = "gene_path"
    /\ UNCHANGED <<gene_path, lines, master_gene_list, new_columns>>
    /\ UNCHANGED gl_others

\* lines 107-108: no gene list, every column stays
NoGeneList ==
    /\ gl_pc = "gene_path"
    /\ gene_path = "None"
    /\ new_columns' = columns
    /\ gl_pc' = "done"
    /\ UNCHANGED <<gene_path, lines, columns, master_gene_list>>
    /\ UNCHANGED gl_others

\* lines 116-120: a file of one line
ReadOneLine ==
    /\ gl_pc = "gene_path"
    /\ gene_path # "None"
    /\ Len(lines) = 1
    /\ master_gene_list' = OneLineList(lines)
    /\ gl_pc' = "filter"
    /\ UNCHANGED <<gene_path, lines, columns, new_columns>>
    /\ UNCHANGED gl_others

\* lines 121-132: a file of several lines
ReadManyLines ==
    /\ gl_pc = "gene_path"
    /\ gene_path # "None"
    /\ Len(lines) # 1
    /\ master_gene_list' = ManyLinesList(lines)
    /\ gl_pc' = "filter"
    /\ UNCHANGED <<gene_path, lines, columns, new_columns>>
    /\ UNCHANGED gl_others

\* lines 135-142: the filtered matrix
FilterGenes ==
    /\ gl_pc = "filter"
    /\ new_columns' = FilterColumns(master_gene_list, columns, <<>>)
    /\ gl_pc' = "done"
    /\ UNCHANGED <<gene_path, lines, columns, master_gene_list>>
    /\ UNCHANGED gl_others

GLNext ==
    \/ UpperColumns
    \/ NoGeneList
    \/ ReadOneLine
    \/ ReadManyLines
    \/ FilterGenes

SpecGeneList == GLInit /\ [][GLNext]_vars

\* the names that the file holds, in any of its lines
NamesInFile == UNION {Range(lines[i]) : i \in 1..Len(lines)}

\* the columns whose name is the upper-cased form of a name of the file
GenesNamedInList ==
    {c \in Range(columns) : \E name \in NamesInFile : Upper(name) = c}

\* C16: whatever the format of the gene list (one line with commas, one gene
\* per line, or a mix) and whatever the letter case of its names, the
\* filtered matrix keeps exactly the genes whose upper-cased name the list
\* names.
C16_GeneListAnyFormatAnyCase ==
    (gl_pc = "done" /\ gene_path # "None")
        => Range(new_columns) = GenesNamedInList

====
